---- MODULE Spec2Model ----
(***************************************************************************)
(* Model of Eco.py: a two-table SQLite registry of policy holders          *)
(* (Titulares) and their dependents (Dependentes).                         *)
(*                                                                         *)
(* A row is projected onto the columns that are keys or are joined on:     *)
(* CPF, Credencial, Nome and, for a dependent, CPFTitular.  A NULL Nome    *)
(* stands for every input that a NOT NULL or CHECK constraint rejects.     *)
(* A CPF is a sequence of one-character strings.                           *)
(***************************************************************************)
EXTENDS Naturals, Sequences, FiniteSets

VARIABLES
    schema,        \* the tables that exist in ECO.db
    Titulares,     \* rows of table Titulares
    Dependentes,   \* rows of table Dependentes
    antes,         \* the rows of both tables when the last call began
    last,          \* the last call of the sequential program and what it printed
    report,        \* the rows that the last listar_pessoas printed
    pc             \* the position of every concurrent caller

vars == <<schema, Titulares, Dependentes, antes, last, report, pc>>

----------------------------------------------------------------------------
(* Bounds and input domains *)

CPFLen == 11

NumCPF == 2

\* What \d matches in a str pattern: the ASCII digits and every other Unicode
\* decimal digit, of which ARABIC-INDIC DIGIT THREE stands here as "U+0663".
Digitos == {"0", "1", "2", "3", "4", "5", "6", "7", "8", "9", "U+0663"}

DigitChar == <<"0", "1", "2", "3", "4", "5", "6", "7", "8", "9">>

\* The i-th well-formed CPF of the input domain (leading zeros included).
CPFDe(i) == [k \in 1..CPFLen |-> IF k = CPFLen THEN DigitChar[i + 1] ELSE "0"]

CPFsValidos == {CPFDe(i) : i \in 1..NumCPF}

CPFCurto == SubSeq(CPFDe(1), 1, CPFLen - 1)

CPFLongo == CPFDe(1) \o <<"7">>

CPFLetra == [CPFDe(1) EXCEPT ![1] = "a"]

CPFsInvalidos == {CPFCurto, CPFLongo, CPFLetra}

CPFs == CPFsValidos \cup CPFsInvalidos

None == "None"

\* The credential and name a caller passes: those of __main__, and a record
\* with no name.
Cadastros ==
    {[credencial |-> "CRED001", nome |-> "Julius Cesar"],
     [credencial |-> "CRED002", nome |-> "Maria Silva"],
     [credencial |-> "CRED002", nome |-> None]}

\* BINARY collation of the two names.
NomeOrd(n) == IF n = "Julius Cesar" THEN 1 ELSE 2

NoCPF == <<>>

----------------------------------------------------------------------------
(* cpf_valido: re.fullmatch(r"\d{11}", cpf) *)

\* Position after matching n digits of s from pos, or 0 when the match fails.
RECURSIVE MatchDigits(_, _, _)
MatchDigits(s, pos, n) ==
    IF n = 0 THEN pos
    ELSE IF pos <= Len(s) /\ s[pos] \in Digitos
         THEN MatchDigits(s, pos + 1, n - 1)
         ELSE 0

\* re.match in place of re.fullmatch: a prefix of 11 digits is enough.
cpf_valido_prefixo(cpf) == MatchDigits(cpf, 1, CPFLen) # 0

cpf_valido(cpf) == MatchDigits(cpf, 1, CPFLen) = Len(cpf) + 1

----------------------------------------------------------------------------
(* The store: constraints of the schema *)

TabelasTodas == {"Titulares", "Dependentes"}

\* PRAGMA foreign_keys = ON issued on every connection.
foreign_keys_on == TRUE

\* Whether a connection enforces foreign keys.  SQLite leaves them off on every
\* new connection until PRAGMA foreign_keys = ON, which no function issues after
\* sqlite3.connect.
foreign_keys == FALSE

TitularExiste(tits, cpf) == \E t \in tits : t.cpf = cpf

\* Titulares without its PRIMARY KEY: only Credencial is unique.
TitularViolaSemChave(tits, d) ==
    \/ \E t \in tits : t.credencial = d.credencial
    \/ d.nome = None

\* PRIMARY KEY, UNIQUE and NOT NULL of table Titulares.
TitularViolaIntegridade(tits, d) ==
    \/ \E t \in tits : t.cpf = d.cpf
    \/ \E t \in tits : t.credencial = d.credencial
    \/ d.nome = None

\* The same for Dependentes, plus the foreign key when it is enforced.
DependenteViolaIntegridade(fk, tits, deps, d) ==
    \/ \E x \in deps : x.cpf = d.cpf
    \/ \E x \in deps : x.credencial = d.credencial
    \/ d.nome = None
    \/ fk /\ ~TitularExiste(tits, d.cpf_titular)

LinhaTitular(d) == [cpf |-> d.cpf, credencial |-> d.credencial, nome |-> d.nome]

LinhaDependente(d) ==
    [cpf |-> d.cpf, credencial |-> d.credencial, nome |-> d.nome,
     cpf_titular |-> d.cpf_titular]

\* What one call did: the tables after it, the messages it printed, whether an
\* exception left the function, whether a connection was opened and closed.
Res(sch, tits, deps, out, escaped, opened, closed) ==
    [schema |-> sch, tits |-> tits, deps |-> deps, out |-> out,
     escaped |-> escaped, opened |-> opened, closed |-> closed]

\* sqlite3.connect raised: the except clause prints, then conn.close() in the
\* finally clause reads the unbound local conn and UnboundLocalError leaves.
FalhaConexao(sch, tits, deps, msg) ==
    Res(sch, tits, deps, <<msg>>, TRUE, FALSE, FALSE)

\* A call that opened and closed its connection and changed nothing.
SemMudanca(sch, tits, deps, out) ==
    Res(sch, tits, deps, out, FALSE, TRUE, TRUE)

----------------------------------------------------------------------------
(* The five operations, each as a function of the store and of its inputs.  *)
(* fault names the storage call of this run that raises sqlite3.Error:      *)
(* connect, the first or second execute, or commit.  A connection closed    *)
(* without a commit rolls its statement back.                               *)

criar_tabelas(sch, tits, deps, fault) ==
    IF fault = "connect" THEN FalhaConexao(sch, tits, deps, "ErroCriarTabelas")
    ELSE IF fault = "execute1" THEN SemMudanca(sch, tits, deps, <<"ErroCriarTabelas">>)
    ELSE IF fault = "execute2"
         THEN SemMudanca(sch \cup {"Titulares"}, tits, deps, <<"ErroCriarTabelas">>)
    ELSE SemMudanca(TabelasTodas, tits, deps, <<"TabelasCriadas">>)

inserir_titular(sch, tits, deps, dados, fault) ==
    IF ~cpf_valido(dados.cpf)
    THEN Res(sch, tits, deps, <<"CPFInvalido">>, FALSE, FALSE, FALSE)
    ELSE IF fault = "connect" THEN FalhaConexao(sch, tits, deps, "ErroBanco")
    ELSE IF fault = "execute1" \/ "Titulares" \notin sch
         THEN SemMudanca(sch, tits, deps, <<"ErroBanco">>)
    ELSE IF TitularViolaIntegridade(tits, dados)
         THEN SemMudanca(sch, tits, deps, <<"ErroIntegridade">>)
    ELSE IF fault = "commit" THEN SemMudanca(sch, tits, deps, <<"ErroBanco">>)
    ELSE SemMudanca(sch, tits \cup {LinhaTitular(dados)}, deps, <<"TitularInserido">>)

\* The lookup of the holder skipped: every holder counts as found.
VerificaTitularSempre(tits, cpf) == TRUE

\* SELECT 1 FROM Titulares WHERE CPF = ? and fetchone().
VerificaTitular(tits, cpf) == TitularExiste(tits, cpf)

\* The INSERT INTO Dependentes and the commit, on the store as it is then.
InsereDependente(fk, sch, tits, deps, dados, fault) ==
    IF fault = "execute2" \/ "Dependentes" \notin sch
    THEN SemMudanca(sch, tits, deps, <<"ErroBanco">>)
    ELSE IF DependenteViolaIntegridade(fk, tits, deps, dados)
         THEN SemMudanca(sch, tits, deps, <<"ErroIntegridade">>)
    ELSE IF fault = "commit" THEN SemMudanca(sch, tits, deps, <<"ErroBanco">>)
    ELSE SemMudanca(sch, tits, deps \cup {LinhaDependente(dados)},
                    <<"DependenteInserido">>)

inserir_dependente(fk, sch, tits, deps, dados, fault) ==
    IF ~cpf_valido(dados.cpf)
    THEN Res(sch, tits, deps, <<"CPFInvalidoDependente">>, FALSE, FALSE, FALSE)
    ELSE IF ~cpf_valido(dados.cpf_titular)
    THEN Res(sch, tits, deps, <<"CPFInvalidoTitular">>, FALSE, FALSE, FALSE)
    ELSE IF fault = "connect" THEN FalhaConexao(sch, tits, deps, "ErroBanco")
    ELSE IF fault = "execute1" \/ "Titulares" \notin sch
         THEN SemMudanca(sch, tits, deps, <<"ErroBanco">>)
    ELSE IF ~VerificaTitular(tits, dados.cpf_titular)
         THEN SemMudanca(sch, tits, deps, <<"TitularNaoEncontrado">>)
    ELSE InsereDependente(fk, sch, tits, deps, dados, fault)

\* A cascade that also takes the dependent whose own CPF is the one removed.
CascataComProprio(fk, sch, deps, cpf) ==
    IF fk /\ "Dependentes" \in sch
    THEN {d \in deps : d.cpf_titular # cpf /\ d.cpf # cpf}
    ELSE {d \in deps : d.cpf # cpf}

\* Dependentes after DELETE FROM Titulares WHERE CPF = ?: ON DELETE CASCADE
\* acts only on a connection that enforces foreign keys.
Cascata(fk, sch, deps, cpf) ==
    IF fk /\ "Dependentes" \in sch
    THEN {d \in deps : d.cpf_titular # cpf}
    ELSE deps

\* rowcount >= 0 in place of rowcount > 0.
MsgRemocaoDependenteGE(rowcount) ==
    IF rowcount >= 0 THEN "DependenteRemovido" ELSE "NenhumaPessoa"

MsgRemocaoDependente(rowcount) ==
    IF rowcount > 0 THEN "DependenteRemovido" ELSE "NenhumaPessoa"

\* The branch of remover_pessoa after its SELECT: found says what it returned.
\* The message of success is printed before the commit.
ApagaPessoa(fk, sch, tits, deps, cpf, found, fault) ==
    IF found
    THEN IF fault = "execute2" THEN SemMudanca(sch, tits, deps, <<"ErroRemover">>)
         ELSE IF fault = "commit"
              THEN SemMudanca(sch, tits, deps, <<"TitularRemovido", "ErroRemover">>)
         ELSE SemMudanca(sch, {t \in tits : t.cpf # cpf}, Cascata(fk, sch, deps, cpf),
                         <<"TitularRemovido">>)
    ELSE IF fault = "execute2" \/ "Dependentes" \notin sch
         THEN SemMudanca(sch, tits, deps, <<"ErroRemover">>)
         ELSE LET rowcount == Cardinality({d \in deps : d.cpf = cpf})
                  msg == MsgRemocaoDependente(rowcount)
              IN  IF fault = "commit"
                  THEN SemMudanca(sch, tits, deps, <<msg, "ErroRemover">>)
                  ELSE SemMudanca(sch, tits, {d \in deps : d.cpf # cpf}, <<msg>>)

remover_pessoa(fk, sch, tits, deps, cpf, fault) ==
    IF ~cpf_valido(cpf)
    THEN Res(sch, tits, deps, <<"CPFInvalido">>, FALSE, FALSE, FALSE)
    ELSE IF fault = "connect" THEN FalhaConexao(sch, tits, deps, "ErroRemover")
    ELSE IF fault = "execute1" \/ "Titulares" \notin sch
         THEN SemMudanca(sch, tits, deps, <<"ErroRemover">>)
    ELSE ApagaPessoa(fk, sch, tits, deps, cpf, TitularExiste(tits, cpf), fault)

\* Every ordering of the rows S by Nome ascending (rows of equal name in any order).
OrdenadoPorNome(S) ==
    {s \in [1..Cardinality(S) -> S] :
        /\ \A i, j \in 1..Cardinality(S) : i # j => s[i] # s[j]
        /\ \A i, j \in 1..Cardinality(S) :
              i < j => NomeOrd(s[i].nome) <= NomeOrd(s[j].nome)}

\* SELECT ... FROM Titulares: the columns printed, of those modelled.
ConsultaTitulares(tits) == {[cpf |-> t.cpf, nome |-> t.nome] : t \in tits}

\* SELECT ... FROM Dependentes d JOIN Titulares t ON d.CPFTitular = t.CPF.
ConsultaDependentes(tits, deps) ==
    {[cpf |-> p[1].cpf, nome |-> p[1].nome, titular |-> p[2].nome] :
        p \in {q \in deps \X tits : q[1].cpf_titular = q[2].cpf}}

\* listar_pessoas prints each result as it is fetched: hs and ds are the
\* orderings the two queries return, printed is what reached the console.
listar_pessoas(sch, tits, deps, hs, ds, fault) ==
    IF fault = "connect"
    THEN [res |-> FalhaConexao(sch, tits, deps, "ErroListar"),
          printed |-> [hs |-> <<>>, ds |-> <<>>]]
    ELSE IF fault = "execute1" \/ "Titulares" \notin sch
    THEN [res |-> SemMudanca(sch, tits, deps, <<"ErroListar">>),
          printed |-> [hs |-> <<>>, ds |-> <<>>]]
    ELSE IF fault = "execute2" \/ "Dependentes" \notin sch
    THEN [res |-> SemMudanca(sch, tits, deps, <<"ErroListar">>),
          printed |-> [hs |-> hs, ds |-> <<>>]]
    ELSE [res |-> SemMudanca(sch, tits, deps, <<"Listagem">>),
          printed |-> [hs |-> hs, ds |-> ds]]

----------------------------------------------------------------------------
(* The sequential program: one call at a time, as __main__ makes them.      *)
(* Each action is one call, over every input of the domain; F is the set of *)
(* storage faults the environment may inject into it.                       *)

SemFalhas == {"none"}

FaultsCriar == {"none", "connect", "execute1", "execute2"}

FaultsTitular == {"none", "connect", "execute1", "commit"}

FaultsDependente == {"none", "connect", "execute1", "execute2", "commit"}

FaultsRemover == {"none", "connect", "execute1", "execute2", "commit"}

FaultsListar == {"none", "connect", "execute1", "execute2"}

\* The records passed to inserir_titular.  A malformed CPF is passed with one
\* credential and name only: the call returns before it reads them.
EntradasTitular ==
    {[cpf |-> c, credencial |-> k.credencial, nome |-> k.nome] :
        c \in CPFsValidos, k \in Cadastros}
    \cup {[cpf |-> c, credencial |-> "CRED001", nome |-> "Julius Cesar"] :
        c \in CPFsInvalidos}

\* The records passed to inserir_dependente, likewise: a malformed CPF of the
\* dependent with a well-formed and with a malformed CPF of the holder, and a
\* malformed CPF of the holder alone.
EntradasDependente ==
    {[cpf |-> c, credencial |-> k.credencial, nome |-> k.nome, cpf_titular |-> t] :
        c \in CPFsValidos, t \in CPFsValidos, k \in Cadastros}
    \cup {[cpf |-> c, credencial |-> "CRED002", nome |-> "Maria Silva",
           cpf_titular |-> t] :
        c \in CPFsInvalidos, t \in {CPFDe(1), CPFCurto}}
    \cup {[cpf |-> CPFDe(1), credencial |-> "CRED002", nome |-> "Maria Silva",
           cpf_titular |-> t] :
        t \in CPFsInvalidos}

NoReport == [hs |-> <<>>, ds |-> <<>>]

\* The call just made: its tax-ID and credential arguments, the fault injected
\* and what the call did.
Chamada(op, cpf, tit, cred, fault, r) ==
    [op |-> op, cpf |-> cpf, cpf_titular |-> tit, credencial |-> cred,
     fault |-> fault, out |-> r.out, escaped |-> r.escaped,
     opened |-> r.opened, closed |-> r.closed]

Grava(r) ==
    /\ schema' = r.schema
    /\ Titulares' = r.tits
    /\ Dependentes' = r.deps

Lembra == antes' = [tits |-> Titulares, deps |-> Dependentes]

\* A fault is injected only into a call that reaches the store.
Alcanca(r, fault) == r.opened \/ r.escaped \/ fault = "none"

CriarTabelas(F) ==
    \E fault \in F \cap FaultsCriar :
      \E r \in {criar_tabelas(schema, Titulares, Dependentes, fault)} :
        /\ Grava(r)
        /\ Lembra
        /\ last' = Chamada("criar_tabelas", NoCPF, NoCPF, None, fault, r)
        /\ report' = NoReport
        /\ UNCHANGED pc

InserirTitular(F) ==
    \E dados \in EntradasTitular, fault \in F \cap FaultsTitular :
      \E r \in {inserir_titular(schema, Titulares, Dependentes, dados, fault)} :
        /\ Alcanca(r, fault)
        /\ Grava(r)
        /\ Lembra
        /\ last' = Chamada("inserir_titular", dados.cpf, NoCPF, dados.credencial,
                           fault, r)
        /\ report' = NoReport
        /\ UNCHANGED pc

InserirDependente(F) ==
    \E dados \in EntradasDependente, fault \in F \cap FaultsDependente :
      \E r \in {inserir_dependente(foreign_keys, schema, Titulares, Dependentes,
                                   dados, fault)} :
        /\ Alcanca(r, fault)
        /\ Grava(r)
        /\ Lembra
        /\ last' = Chamada("inserir_dependente", dados.cpf, dados.cpf_titular, None,
                           fault, r)
        /\ report' = NoReport
        /\ UNCHANGED pc

RemoverPessoa(F) ==
    \E cpf \in CPFs, fault \in F \cap FaultsRemover :
      \E r \in {remover_pessoa(foreign_keys, schema, Titulares, Dependentes,
                               cpf, fault)} :
        /\ Alcanca(r, fault)
        /\ Grava(r)
        /\ Lembra
        /\ last' = Chamada("remover_pessoa", cpf, NoCPF, None, fault, r)
        /\ report' = NoReport
        /\ UNCHANGED pc

ListarPessoas(F) ==
    \E fault \in F \cap FaultsListar :
      \E hs \in OrdenadoPorNome(ConsultaTitulares(Titulares)),
         ds \in OrdenadoPorNome(ConsultaDependentes(Titulares, Dependentes)) :
        \E l \in {listar_pessoas(schema, Titulares, Dependentes, hs, ds, fault)} :
          /\ Grava(l.res)
          /\ Lembra
          /\ last' = Chamada("listar_pessoas", NoCPF, NoCPF, None, fault, l.res)
          /\ report' = l.printed
          /\ UNCHANGED pc

Procs == {"p1", "p2"}

NoDados == [cpf |-> NoCPF, credencial |-> None, nome |-> None, cpf_titular |-> NoCPF]

Idle == [at |-> "idle", op |-> "none", dados |-> NoDados, found |-> FALSE,
         orfao |-> FALSE, out |-> <<>>]

NoChamada ==
    [op |-> "none", cpf |-> NoCPF, cpf_titular |-> NoCPF, credencial |-> None,
     fault |-> "none", out |-> <<>>, escaped |-> FALSE, opened |-> FALSE,
     closed |-> FALSE]

\* ECO.db does not exist yet: no table, no call made.
Init ==
    /\ schema = {}
    /\ Titulares = {}
    /\ Dependentes = {}
    /\ antes = [tits |-> {}, deps |-> {}]
    /\ last = NoChamada
    /\ report = NoReport
    /\ pc = [p \in Procs |-> Idle]

\* The program while the store answers every call.
Next ==
    \/ CriarTabelas(SemFalhas)
    \/ InserirTitular(SemFalhas)
    \/ InserirDependente(SemFalhas)
    \/ RemoverPessoa(SemFalhas)
    \/ ListarPessoas(SemFalhas)

Spec == Init /\ [][Next]_vars

\* The program on a store that may fail at any of its calls.
NextFalhas ==
    \/ CriarTabelas(FaultsCriar)
    \/ InserirTitular(FaultsTitular)
    \/ InserirDependente(FaultsDependente)
    \/ RemoverPessoa(FaultsRemover)
    \/ ListarPessoas(FaultsListar)

SpecFalhas == Init /\ [][NextFalhas]_vars

----------------------------------------------------------------------------
(* Two callers on the same ECO.db.  A statement with its commit is one step *)
(* of the store; between the SELECT of a call and its INSERT or DELETE the  *)
(* other caller's statements may commit.  Each person is registered under  *)
(* their own credential and name.                                           *)

CredDe == <<"CRED001", "CRED002", "CRED003", "CRED004">>

NomeDe(i) == IF i % 2 = 1 THEN "Julius Cesar" ELSE "Maria Silva"

Pessoas ==
    {[cpf |-> CPFDe(i), credencial |-> CredDe[i], nome |-> NomeDe(i)] : i \in 1..NumCPF}

\* The tables exist (criar_tabelas has run) and are empty.
InitConc ==
    /\ schema = TabelasTodas
    /\ Titulares = {}
    /\ Dependentes = {}
    /\ antes = [tits |-> {}, deps |-> {}]
    /\ last = NoChamada
    /\ report = NoReport
    /\ pc = [p \in Procs |-> Idle]

\* inserir_titular: one INSERT and its commit.
ConcInserirTitular ==
    \E p \in Procs, d \in Pessoas :
      \E r \in {inserir_titular(schema, Titulares, Dependentes, d, "none")} :
        /\ pc[p].at = "idle"
        /\ Grava(r)
        /\ pc' = [pc EXCEPT ![p] = [Idle EXCEPT !.op = "inserir_titular", !.out = r.out]]
        /\ UNCHANGED <<antes, last, report>>

\* inserir_dependente up to fetchone(): the holder is looked up.
ConcVerificar ==
    \E p \in Procs, d \in Pessoas, t \in CPFsValidos :
      LET dados == [cpf |-> d.cpf, credencial |-> d.credencial, nome |-> d.nome,
                    cpf_titular |-> t]
      IN  /\ pc[p].at = "idle"
          /\ pc' = [pc EXCEPT ![p] =
                      IF VerificaTitular(Titulares, t)
                      THEN [Idle EXCEPT !.at = "insert", !.op = "inserir_dependente",
                                        !.dados = dados, !.found = TRUE]
                      ELSE [Idle EXCEPT !.op = "inserir_dependente",
                                        !.out = <<"TitularNaoEncontrado">>]]
          /\ UNCHANGED <<schema, Titulares, Dependentes, antes, last, report>>

\* inserir_dependente from its INSERT on.  orfao records that the holder was
\* gone when the INSERT ran.
ConcInserir ==
    \E p \in Procs :
      \E r \in {InsereDependente(foreign_keys, schema, Titulares, Dependentes,
                                 pc[p].dados, "none")} :
        /\ pc[p].at = "insert"
        /\ Grava(r)
        /\ pc' = [pc EXCEPT ![p] =
                    [Idle EXCEPT !.op = "inserir_dependente", !.found = TRUE,
                                 !.orfao = ~TitularExiste(Titulares,
                                                          pc[p].dados.cpf_titular),
                                 !.out = r.out]]
        /\ UNCHANGED <<antes, last, report>>

\* remover_pessoa up to fetchone().
ConcSelecionar ==
    \E q \in Procs, cpf \in CPFsValidos :
        /\ pc[q].at = "idle"
        /\ pc' = [pc EXCEPT ![q] =
                    [Idle EXCEPT !.at = "delete", !.op = "remover_pessoa",
                                 !.dados = [NoDados EXCEPT !.cpf = cpf],
                                 !.found = TitularExiste(Titulares, cpf)]]
        /\ UNCHANGED <<schema, Titulares, Dependentes, antes, last, report>>

\* remover_pessoa from its DELETE on.
ConcApagar ==
    \E q \in Procs :
      \E r \in {ApagaPessoa(foreign_keys, schema, Titulares, Dependentes,
                            pc[q].dados.cpf, pc[q].found, "none")} :
        /\ pc[q].at = "delete"
        /\ Grava(r)
        /\ pc' = [pc EXCEPT ![q] =
                    [Idle EXCEPT !.op = "remover_pessoa", !.found = pc[q].found,
                                 !.out = r.out]]
        /\ UNCHANGED <<antes, last, report>>

NextConc ==
    \/ ConcInserirTitular
    \/ ConcVerificar
    \/ ConcInserir
    \/ ConcSelecionar
    \/ ConcApagar

SpecConc == InitConc /\ [][NextConc]_vars

----------------------------------------------------------------------------
(* Properties *)

\* Exactly 11 decimal digits.
BemFormado(cpf) == Len(cpf) = CPFLen /\ \A i \in 1..Len(cpf) : cpf[i] \in Digitos

EsquemaCompleto == schema = TabelasTodas

\* The last call left both tables as it found them.
Intacto == Titulares = antes.tits /\ Dependentes = antes.deps

\* C1: remover_pessoa(h) of a holder h that is in Titulares removes the row of
\* h and every row of Dependentes whose CPFTitular is h.
C1_RemocaoEmCascata ==
    (last.op = "remover_pessoa" /\ TitularExiste(antes.tits, last.cpf))
        => /\ ~TitularExiste(Titulares, last.cpf)
           /\ \A d \in Dependentes : d.cpf_titular # last.cpf

\* C2: in every reachable state every row of Dependentes refers to a row that
\* is in Titulares.
C2_IntegridadeReferencial ==
    \A d \in Dependentes : TitularExiste(Titulares, d.cpf_titular)

\* C3: inserir_dependente with two well-formed CPFs whose holder is not in
\* Titulares reports that the holder was not found and changes neither table.
C3_TitularInexistente ==
    (/\ last.op = "inserir_dependente"
     /\ EsquemaCompleto
     /\ BemFormado(last.cpf) /\ BemFormado(last.cpf_titular)
     /\ \A t \in antes.tits : t.cpf # last.cpf_titular)
        => last.out = <<"TitularNaoEncontrado">> /\ Intacto

\* C3 happens: the holder asked for is missing while another holder is there.
C3_Witness ==
    /\ last.op = "inserir_dependente"
    /\ last.out = <<"TitularNaoEncontrado">>
    /\ BemFormado(last.cpf) /\ BemFormado(last.cpf_titular)
    /\ Titulares # {}
    /\ ~TitularExiste(Titulares, last.cpf_titular)

\* C4: inserir_titular with a CPF or a credential that a row of Titulares
\* already has fails with an integrity error and changes nothing: the CPF still
\* has exactly one row, the one first inserted.
C4_NuncaUpsert ==
    (/\ last.op = "inserir_titular"
     /\ BemFormado(last.cpf)
     /\ \E t \in antes.tits : t.cpf = last.cpf \/ t.credencial = last.credencial)
        => /\ last.out = <<"ErroIntegridade">>
           /\ Intacto
           /\ \A t \in antes.tits :
                 t.cpf = last.cpf => {u \in Titulares : u.cpf = last.cpf} = {t}

\* C4 happens: a second insert of a CPF under another credential was refused.
C4_Witness ==
    /\ last.op = "inserir_titular"
    /\ last.out = <<"ErroIntegridade">>
    /\ \E t \in Titulares : t.cpf = last.cpf /\ t.credencial # last.credencial

\* C5: a CPF that is not exactly 11 digits ends inserir_titular, inserir_dependente
\* (the dependent's CPF first, then the holder's) and remover_pessoa with the
\* invalid-CPF message, before any connection is opened and with both tables
\* unchanged.
C5_CPFInvalido ==
    /\ (last.op = "inserir_titular" /\ ~BemFormado(last.cpf))
          => last.out = <<"CPFInvalido">> /\ ~last.opened /\ Intacto
    /\ (last.op = "inserir_dependente" /\ ~BemFormado(last.cpf))
          => last.out = <<"CPFInvalidoDependente">> /\ ~last.opened /\ Intacto
    /\ (/\ last.op = "inserir_dependente"
        /\ BemFormado(last.cpf) /\ ~BemFormado(last.cpf_titular))
          => last.out = <<"CPFInvalidoTitular">> /\ ~last.opened /\ Intacto
    /\ (last.op = "remover_pessoa" /\ ~BemFormado(last.cpf))
          => last.out = <<"CPFInvalido">> /\ ~last.opened /\ Intacto

\* C5 happens: both CPFs of a dependent were malformed, on a store with rows.
C5_Witness ==
    /\ last.op = "inserir_dependente"
    /\ ~BemFormado(last.cpf) /\ ~BemFormado(last.cpf_titular)
    /\ last.out = <<"CPFInvalidoDependente">>
    /\ Titulares # {}

\* C6: remover_pessoa with a well-formed CPF that is in neither table reports
\* that nobody was found and changes neither table.
C6_NinguemEncontrado ==
    (/\ last.op = "remover_pessoa"
     /\ EsquemaCompleto
     /\ BemFormado(last.cpf)
     /\ \A t \in antes.tits : t.cpf # last.cpf
     /\ \A d \in antes.deps : d.cpf # last.cpf)
        => last.out = <<"NenhumaPessoa">> /\ Intacto

\* C6 happens: nobody was found in a store that has holders and dependents.
C6_Witness ==
    /\ last.op = "remover_pessoa"
    /\ last.out = <<"NenhumaPessoa">>
    /\ BemFormado(last.cpf)
    /\ Titulares # {} /\ Dependentes # {}

\* C7: when x is a holder and also the CPF of a dependent of another holder,
\* remover_pessoa(x) deletes the holder x, reports the holder as removed and
\* keeps the dependent whose own CPF is x.
C7_TitularPrimeiro ==
    (/\ last.op = "remover_pessoa"
     /\ TitularExiste(antes.tits, last.cpf)
     /\ \E d \in antes.deps : d.cpf = last.cpf /\ d.cpf_titular # last.cpf)
        => /\ last.out = <<"TitularRemovido">>
           /\ ~TitularExiste(Titulares, last.cpf)
           /\ \A d \in antes.deps :
                 (d.cpf = last.cpf /\ d.cpf_titular # last.cpf) => d \in Dependentes

\* C7 happens: x was in both tables and its dependent row is still there.
C7_Witness ==
    /\ last.op = "remover_pessoa"
    /\ last.out = <<"TitularRemovido">>
    /\ TitularExiste(antes.tits, last.cpf)
    /\ \E d \in Dependentes : d.cpf = last.cpf /\ d.cpf_titular # last.cpf

\* C8: listar_pessoas lists every row of Titulares exactly once under its name
\* and every row of Dependentes exactly once with the name of its holder, and
\* changes neither table.
C8_ListagemCompleta ==
    (last.op = "listar_pessoas" /\ EsquemaCompleto)
        => /\ Len(report.hs) = Cardinality(Titulares)
           /\ \A t \in Titulares :
                 Cardinality({i \in DOMAIN report.hs :
                                 report.hs[i].cpf = t.cpf /\ report.hs[i].nome = t.nome}) = 1
           /\ Len(report.ds) = Cardinality(Dependentes)
           /\ \A d \in Dependentes :
                 Cardinality({i \in DOMAIN report.ds :
                                 /\ report.ds[i].cpf = d.cpf
                                 /\ \E t \in Titulares :
                                       /\ t.cpf = d.cpf_titular
                                       /\ report.ds[i].titular = t.nome}) = 1
           /\ Intacto

\* C9: whatever storage call fails, connect included, every operation ends with
\* a reported outcome and returns normally, and a connection that was opened is
\* closed.
C9_NadaEscapa ==
    last.op # "none"
        => /\ ~last.escaped
           /\ last.out # <<>>
           /\ last.opened => last.closed

\* C10: the lookup and the INSERT of inserir_dependente are two steps: an INSERT
\* that runs after another caller removed the holder found by the lookup, and
\* that no key of Dependentes refuses, still succeeds and leaves a dependent
\* whose holder is not in Titulares.
C10_VerificaDepoisInsere ==
    [][\A p \in Procs :
          (/\ pc[p].at = "insert"
           /\ pc'[p].at = "idle"
           /\ ~TitularExiste(Titulares, pc[p].dados.cpf_titular)
           /\ \A d \in Dependentes :
                 d.cpf # pc[p].dados.cpf /\ d.credencial # pc[p].dados.credencial)
             => /\ pc'[p].out = <<"DependenteInserido">>
                /\ LinhaDependente(pc[p].dados) \in Dependentes'
                /\ ~TitularExiste(Titulares', pc[p].dados.cpf_titular)]_vars

\* C10 happens: one caller's lookup found the holder, the other caller removed
\* the holder, and the first caller's INSERT then succeeded.
C10_Witness ==
    \E p \in Procs, q \in Procs :
        /\ p # q
        /\ pc[p].op = "inserir_dependente" /\ pc[p].at = "idle"
        /\ pc[p].found /\ pc[p].orfao
        /\ pc[p].out = <<"DependenteInserido">>
        /\ pc[q].op = "remover_pessoa" /\ pc[q].at = "idle"
        /\ pc[q].out = <<"TitularRemovido">>
        /\ \E d \in Dependentes : ~TitularExiste(Titulares, d.cpf_titular)

====
